---- MODULE Spec2Model ----
(***************************************************************************)
(* State machine of the DiffViewer component                               *)
(* (src/src/components/common/DiffViewer.js).                              *)
(*                                                                         *)
(* A function component's local bindings are constants of one render; a    *)
(* state setter only queues an update that the next render turns into the  *)
(* binding.  The model therefore keeps, for each useState cell that a      *)
(* handler reads, the value bound in the last render and the value the    *)
(* cell holds after the queued updates.                                    *)
(***************************************************************************)
EXTENDS Naturals, Sequences, FiniteSets, TLC

VARIABLES
    shouldShowDiff,        \* prop, as of the last render
    isLoading,             \* useFetchDiff().isLoading, as of the last render
    isDone,                \* useFetchDiff().isDone, as of the last render
    diff,                  \* useFetchDiff().diff, as of the last render
    completedDiffs,        \* the binding of the last render
    queuedCompletedDiffs,  \* the state cell after the queued updaters
    diffViewStyle,         \* the binding of the last render
    queuedViewStyle,       \* the state cell after the queued updates
    renderPending,         \* an update was queued since the last render
    localStorage,          \* browser storage: key -> string
    locationHash,          \* window.location.hash, a sequence of characters
    stopScrolling,         \* state of the jumpToAnchor reducer
    dispatches,            \* number of jumpToAnchorOnce dispatches so far
    scrollLog,             \* dispatch numbers at which scrollIntoView ran
    lastEvent,             \* history: the operation of the last step
    toggledSinceReset,     \* history: keys passed to handleCompleteDiff
                           \* since the isDone effect last asked for a reset
    involution             \* history: progress of a toggle/render/toggle run

vars == <<shouldShowDiff, isLoading, isDone, diff, completedDiffs,
          queuedCompletedDiffs, diffViewStyle, queuedViewStyle, renderPending,
          localStorage, locationHash, stopScrolling, dispatches, scrollLog,
          lastEvent, toggledSinceReset, involution>>

propsVars == <<shouldShowDiff, isLoading, isDone, diff>>
completionVars == <<completedDiffs, queuedCompletedDiffs>>
viewStyleVars == <<diffViewStyle, queuedViewStyle>>
anchorVars == <<stopScrolling, dispatches, scrollLog>>

----------------------------------------------------------------------------
(* Bounds *)

MaxCompleted == 3      \* length of the completed list
MaxDispatches == 3     \* onAnimationComplete dispatches in one lifetime

----------------------------------------------------------------------------
(* Inputs *)

Revisions == {"a", "b"}

\* A file of the parsed diff; the component reads only its two revisions.
Files == {f \in [oldRevision : Revisions, newRevision : Revisions] :
            f.oldRevision # f.newRevision}

Range(s) == {s[i] : i \in DOMAIN s}

RECURSIVE SeqsUpTo(_, _)
SeqsUpTo(S, n) ==
    IF n = 0 THEN {<<>>}
    ELSE LET shorter == SeqsUpTo(S, n - 1)
         IN  shorter \cup {Append(s, x) : s \in shorter, x \in S}

\* The diffs the fetch hook can hand over: some of the files, in some order,
\* each listed once.
Diffs == {d \in SeqsUpTo(Files, Cardinality(Files)) :
            Cardinality(Range(d)) = Len(d)}

ViewStyles == {"", "split", "unified"}

ViewStyleKey == "viewStyle"

NoItems == [k \in {} |-> ""]

Stored(v) == [k \in {ViewStyleKey} |-> v]

Storages == {NoItems} \cup {Stored(v) : v \in ViewStyles}

\* window.location.hash is empty or "#" followed by a fragment.
Hashes == {<<>>, <<"#", "x">>, <<"#", "y">>}

\* ids of the elements the rendered diff puts in the document
ElementIds == {<<"x">>}

----------------------------------------------------------------------------
(* Pure functions of the source *)

getDiffKey(file) == file.oldRevision \o file.newRevision

Includes(list, item) == \E i \in DOMAIN list : list[i] = item

\* prevCompletedDiffs.filter((completedDiff) => completedDiff !== diffKey)
FilterOut(prevCompletedDiffs, diffKey) ==
    LET keep(completedDiff) == completedDiff # diffKey
    IN  SelectSeq(prevCompletedDiffs, keep)

RemoveLast(prevCompletedDiffs, diffKey) ==
    IF prevCompletedDiffs = <<>> THEN <<>>
    ELSE SubSeq(prevCompletedDiffs, 1, Len(prevCompletedDiffs) - 1)

AlwaysAppend(rendered, prevCompletedDiffs, diffKey) ==
    Append(prevCompletedDiffs, diffKey)

ToggleByPosition(rendered, prevCompletedDiffs, diffKey) ==
    IF Includes(rendered, diffKey)
    THEN RemoveLast(prevCompletedDiffs, diffKey)
    ELSE Append(prevCompletedDiffs, diffKey)

\* The state the cell holds after handleCompleteDiff(diffKey) has queued its
\* updater: the membership test reads the render's binding, the updater is
\* applied to the cell.
CompleteDiffUpdate(rendered, prevCompletedDiffs, diffKey) ==
    IF Includes(rendered, diffKey)
    THEN FilterOut(prevCompletedDiffs, diffKey)
    ELSE Append(prevCompletedDiffs, diffKey)

resetCompletedDiffs == <<>>

ResetWhenDone(depChanged, isDoneNow, cell) ==
    IF depChanged /\ isDoneNow THEN resetCompletedDiffs ELSE cell

\* useEffect(() => { if (!isDone) resetCompletedDiffs() }, [isDone]): the
\* effect runs after the first render and after each render whose isDone
\* differs from the previous render's.
IsDoneEffect(depChanged, isDoneNow, cell) ==
    IF depChanged /\ ~isDoneNow THEN resetCompletedDiffs ELSE cell

\* diff.length === completedDiffs.length
renderUpgradeDoneMessage(d, completed) == Len(d) = Len(completed)

getItem(storage, key) ==
    IF key \in DOMAIN storage THEN <<storage[key]>> ELSE <<>>

setItem(storage, key, value) ==
    [k \in DOMAIN storage \cup {key} |->
        IF k = key THEN value ELSE storage[k]]

AlwaysSplit(storage) == "split"

\* localStorage.getItem('viewStyle') || 'split'
InitialViewStyle(storage) ==
    LET item == getItem(storage, ViewStyleKey)
    IN  IF item # <<>> /\ item[1] # "" THEN item[1] ELSE "split"

getElementById(id) == id \in ElementIds

KeepStateWithoutHash(stop, hash) ==
    IF hash = <<>> THEN [state |-> stop, scrolled |-> FALSE]
    ELSE IF stop THEN [state |-> TRUE, scrolled |-> FALSE]
    ELSE [state |-> TRUE, scrolled |-> getElementById(Tail(hash))]

\* The reducer: the next state and whether ref.scrollIntoView() was called.
jumpToAnchor(stop, hash) ==
    IF hash = <<>> \/ stop THEN [state |-> TRUE, scrolled |-> FALSE]
    ELSE IF ~getElementById(Tail(hash)) THEN [state |-> TRUE, scrolled |-> FALSE]
    ELSE [state |-> TRUE, scrolled |-> TRUE]

AnimatedWhenShown(show, loading) == show

\* The motion.div carrying onAnimationComplete, and with it the diff
\* sections and the view style options, is returned only past the two early
\* returns.
DiffRendered(show, loading) == show /\ ~loading

DiffKeys(d) == {getDiffKey(d[i]) : i \in DOMAIN d}

----------------------------------------------------------------------------
(* History bookkeeping *)

NoRun == [phase |-> 0, key |-> "", before |-> {}]

----------------------------------------------------------------------------
(* Initial state: the first render of a mounted component *)

Init ==
    /\ shouldShowDiff \in BOOLEAN
    /\ isLoading \in BOOLEAN
    /\ isDone \in BOOLEAN
    /\ diff \in Diffs
    /\ localStorage \in Storages
    /\ locationHash \in Hashes
    /\ completedDiffs = <<>>
    /\ queuedCompletedDiffs = IsDoneEffect(TRUE, isDone, <<>>)
    /\ diffViewStyle = InitialViewStyle(localStorage)
    /\ queuedViewStyle = InitialViewStyle(localStorage)
    /\ renderPending = FALSE
    /\ stopScrolling = FALSE
    /\ dispatches = 0
    /\ scrollLog = <<>>
    /\ lastEvent = <<"mount">>
    /\ toggledSinceReset = {}
    /\ involution = NoRun

----------------------------------------------------------------------------
(* Operations *)

\* The parent or the fetch hook hands over new values (or a queued update is
\* due) and the component renders; the isDone effect runs after the commit
\* and, when it resets, the render it schedules follows at once.
Render(show, loading, done, d) ==
    LET depChanged == done # isDone
        cell == IsDoneEffect(depChanged, done, queuedCompletedDiffs)
        resets == depChanged /\ ~done
    IN  /\ shouldShowDiff' = show
        /\ isLoading' = loading
        /\ isDone' = done
        /\ diff' = d
        /\ completedDiffs' = cell
        /\ queuedCompletedDiffs' = cell
        /\ diffViewStyle' = queuedViewStyle
        /\ renderPending' = FALSE
        /\ lastEvent' = IF resets
                        THEN <<"reset", Len(queuedCompletedDiffs)>>
                        ELSE <<"render">>
        /\ toggledSinceReset' = IF resets THEN {} ELSE toggledSinceReset
        /\ involution' = IF involution.phase = 1 /\ ~resets
                         THEN [involution EXCEPT !.phase = 2]
                         ELSE NoRun
        /\ UNCHANGED <<queuedViewStyle, localStorage, locationHash, anchorVars>>

\* A diff section calls handleCompleteDiff with the key of one of its files.
handleCompleteDiff(diffKey) ==
    LET cell == CompleteDiffUpdate(completedDiffs, queuedCompletedDiffs, diffKey)
    IN  /\ DiffRendered(shouldShowDiff, isLoading)
        /\ diffKey \in DiffKeys(diff)
        /\ Len(cell) <= MaxCompleted
        /\ queuedCompletedDiffs' = cell
        /\ renderPending' = TRUE
        /\ lastEvent' = <<"handleCompleteDiff", diffKey>>
        /\ toggledSinceReset' = toggledSinceReset \cup {diffKey}
        /\ involution' =
             IF involution.phase = 2 /\ involution.key = diffKey
             THEN [involution EXCEPT !.phase = 3]
             ELSE IF ~renderPending
             THEN [phase |-> 1, key |-> diffKey,
                   before |-> Range(queuedCompletedDiffs)]
             ELSE NoRun
        /\ UNCHANGED <<propsVars, completedDiffs, viewStyleVars, localStorage,
                       locationHash, anchorVars>>

handleViewStyleChange(newViewStyle) ==
    /\ DiffRendered(shouldShowDiff, isLoading)
    /\ queuedViewStyle' = newViewStyle
    /\ localStorage' = setItem(localStorage, ViewStyleKey, newViewStyle)
    /\ renderPending' = TRUE
    /\ lastEvent' = <<"handleViewStyleChange", newViewStyle>>
    /\ involution' = NoRun
    /\ UNCHANGED <<propsVars, completionVars, diffViewStyle, locationHash,
                   anchorVars, toggledSinceReset>>

\* onAnimationComplete={jumpToAnchorOnce}: the dispatch runs the reducer.
onAnimationComplete ==
    LET result == jumpToAnchor(stopScrolling, locationHash)
    IN  /\ DiffRendered(shouldShowDiff, isLoading)
        /\ dispatches < MaxDispatches
        /\ dispatches' = dispatches + 1
        /\ stopScrolling' = result.state
        /\ scrollLog' = IF result.scrolled
                        THEN Append(scrollLog, dispatches + 1)
                        ELSE scrollLog
        /\ lastEvent' = <<"onAnimationComplete">>
        /\ involution' = NoRun
        /\ UNCHANGED <<propsVars, completionVars, viewStyleVars, renderPending,
                       localStorage, locationHash, toggledSinceReset>>

\* The user follows a link to another fragment, or clears it.
HashChange(hash) ==
    /\ hash # locationHash
    /\ locationHash' = hash
    /\ lastEvent' = <<"hashchange">>
    /\ involution' = NoRun
    /\ UNCHANGED <<propsVars, completionVars, viewStyleVars, renderPending,
                   localStorage, anchorVars, toggledSinceReset>>

\* The component is unmounted and mounted again: every hook starts over,
\* the browser storage and the location stay.
Remount(show, loading, done, d) ==
    /\ shouldShowDiff' = show
    /\ isLoading' = loading
    /\ isDone' = done
    /\ diff' = d
    /\ completedDiffs' = <<>>
    /\ queuedCompletedDiffs' = IsDoneEffect(TRUE, done, <<>>)
    /\ diffViewStyle' = InitialViewStyle(localStorage)
    /\ queuedViewStyle' = InitialViewStyle(localStorage)
    /\ renderPending' = FALSE
    /\ stopScrolling' = FALSE
    /\ dispatches' = 0
    /\ scrollLog' = <<>>
    /\ lastEvent' = <<"mount">>
    /\ toggledSinceReset' = {}
    /\ involution' = NoRun
    /\ UNCHANGED <<localStorage, locationHash>>

Next ==
    \/ \E show \in BOOLEAN, loading \in BOOLEAN, done \in BOOLEAN, d \in Diffs :
          Render(show, loading, done, d)
    \/ \E diffKey \in DiffKeys(diff) : handleCompleteDiff(diffKey)
    \/ \E newViewStyle \in ViewStyles : handleViewStyleChange(newViewStyle)
    \/ onAnimationComplete
    \/ \E hash \in Hashes : HashChange(hash)
    \/ \E show \in BOOLEAN, loading \in BOOLEAN, done \in BOOLEAN, d \in Diffs :
          Remount(show, loading, done, d)

Spec == Init /\ [][Next]_vars

----------------------------------------------------------------------------
(* The three concerns of the component share no state cell, so each is also *)
(* explored on its own, with the inputs of the other two held fixed.        *)

InitCompletion == Init /\ localStorage = NoItems /\ locationHash = <<>>

NextCompletion ==
    \/ \E show \in BOOLEAN, loading \in BOOLEAN, done \in BOOLEAN, d \in Diffs :
          Render(show, loading, done, d)
    \/ \E diffKey \in DiffKeys(diff) : handleCompleteDiff(diffKey)
    \/ \E show \in BOOLEAN, loading \in BOOLEAN, done \in BOOLEAN, d \in Diffs :
          Remount(show, loading, done, d)

SpecCompletion == InitCompletion /\ [][NextCompletion]_vars

\* As SpecCompletion, with a fetch hook that keeps handing over the diff it
\* handed over at mount.
NextSameDiff ==
    \/ \E show \in BOOLEAN, loading \in BOOLEAN, done \in BOOLEAN :
          Render(show, loading, done, diff)
    \/ \E diffKey \in DiffKeys(diff) : handleCompleteDiff(diffKey)
    \/ \E show \in BOOLEAN, loading \in BOOLEAN, done \in BOOLEAN, d \in Diffs :
          Remount(show, loading, done, d)

SpecSameDiff == InitCompletion /\ [][NextSameDiff]_vars

InitAnchor == Init /\ diff = <<>> /\ localStorage = NoItems

NextAnchor ==
    \/ \E show \in BOOLEAN, loading \in BOOLEAN, done \in BOOLEAN :
          Render(show, loading, done, diff)
    \/ onAnimationComplete
    \/ \E hash \in Hashes : HashChange(hash)
    \/ \E show \in BOOLEAN, loading \in BOOLEAN, done \in BOOLEAN :
          Remount(show, loading, done, diff)

SpecAnchor == InitAnchor /\ [][NextAnchor]_vars

InitViewStyle == Init /\ diff = <<>> /\ locationHash = <<>>

NextViewStyle ==
    \/ \E show \in BOOLEAN, loading \in BOOLEAN, done \in BOOLEAN :
          Render(show, loading, done, diff)
    \/ \E newViewStyle \in ViewStyles : handleViewStyleChange(newViewStyle)
    \/ \E show \in BOOLEAN, loading \in BOOLEAN, done \in BOOLEAN :
          Remount(show, loading, done, diff)

SpecViewStyle == InitViewStyle /\ [][NextViewStyle]_vars

----------------------------------------------------------------------------
(* Properties *)

AllKeys == {getDiffKey(f) : f \in Files}

Others(list, k) == LET other(x) == x # k IN SelectSeq(list, other)

IsCall(event, k) == event = <<"handleCompleteDiff", k>>

C2_ScrollOnce ==
    /\ Len(scrollLog) <= 1
    /\ \A i \in DOMAIN scrollLog : scrollLog[i] = 1
    /\ stopScrolling <=> dispatches > 0

\* Several dispatches happened, the first scrolled, the hash now names an
\* element of the document.
C2_Witness ==
    /\ dispatches >= 2
    /\ scrollLog = <<1>>
    /\ locationHash # <<>>
    /\ getElementById(Tail(locationHash))

InSync(style, storage) ==
    \/ ViewStyleKey \in DOMAIN storage /\ storage[ViewStyleKey] = style
    \/ /\ ViewStyleKey \notin DOMAIN storage \/ storage[ViewStyleKey] = ""
       /\ style = "split"

\* C3: the view style is in sync with the storage key 'viewStyle'.  The
\* state cell always equals the stored value, or nothing (or the empty
\* string) is stored and it is 'split'; so does the render's diffViewStyle
\* whenever no update is waiting for a render.
C3_ViewStyleInSync ==
    /\ InSync(queuedViewStyle, localStorage)
    /\ ~renderPending => InSync(diffViewStyle, localStorage)

\* The handler has stored a style other than the one on display, and the
\* render that will show it is still to come.
C3_Witness ==
    /\ lastEvent = <<"handleViewStyleChange", "unified">>
    /\ renderPending
    /\ diffViewStyle = "split"
    /\ queuedViewStyle = "unified"
    /\ localStorage = Stored("unified")

\* C4: the anchor is handled only once the diff has loaded.  Every step
\* that dispatches to jumpToAnchor or scrolls the anchor into view starts
\* in a state whose render had shouldShowDiff true and isLoading false.
C4_JumpOnlyWhenLoaded ==
    [][(dispatches' > dispatches \/ Len(scrollLog') > Len(scrollLog))
          => shouldShowDiff /\ ~isLoading]_vars

\* A dispatch scrolled, and the component has gone back to loading since.
C4_Witness ==
    /\ scrollLog # <<>>
    /\ isLoading
    /\ shouldShowDiff

\* C5: completion tracking is reset on every new fetch.  A step that takes
\* isDone from true to false leaves completedDiffs empty, and every key in
\* the list was passed to handleCompleteDiff after the last such step (or
\* after the mount).
C5_ResetOnNewFetch ==
    /\ [](Range(completedDiffs) \cup Range(queuedCompletedDiffs)
            \subseteq toggledSinceReset)
    /\ [][isDone /\ ~isDone' =>
            completedDiffs' = <<>> /\ queuedCompletedDiffs' = <<>>]_vars

\* The effect has just emptied a list that held keys.
C5_Witness ==
    /\ lastEvent[1] = "reset"
    /\ lastEvent[2] > 0
    /\ ~isDone
    /\ completedDiffs = <<>>

\* C6: the 'Your upgrade is done' alert is rendered exactly when every file
\* of the displayed diff is marked completed.
C6_AlertIffAllCompleted ==
    DiffRendered(shouldShowDiff, isLoading) =>
        (renderUpgradeDoneMessage(diff, completedDiffs)
            <=> DiffKeys(diff) \subseteq Range(completedDiffs))

\* C7: toggling twice restores the set of completed keys.  After
\* handleCompleteDiff(k) from a render with no update waiting, a render
\* that resets nothing, and handleCompleteDiff(k) again, the list has the
\* keys it had before the first call.
C7_ToggleTwice ==
    involution.phase = 3 => Range(queuedCompletedDiffs) = involution.before

\* Such a run has ended, on a list that held a key before it.
C7_Witness ==
    /\ involution.phase = 3
    /\ involution.before # {}
    /\ involution.key \notin involution.before

\* C8: completedDiffs never holds the same key twice.
C8_NoDuplicateKeys ==
    /\ Cardinality(Range(completedDiffs)) = Len(completedDiffs)
    /\ Cardinality(Range(queuedCompletedDiffs)) = Len(queuedCompletedDiffs)

====
